---- MODULE Spec2Model ----
(***************************************************************************)
(* Model of the llm-builder-api request pipeline: the Express handler of   *)
(* api/index.js (lazy-require variant) and processRequest of processor.js  *)
(* with its helpers ghRetry and postWithRetry.                             *)
(*                                                                         *)
(* One request is followed from the POST to its terminal outcome.  Every   *)
(* `await` of the source is one action.  Remote calls are instantaneous;   *)
(* only setTimeout waits advance the clock `now` (milliseconds).           *)
(*                                                                         *)
(* Specifications: Spec (any request, failing calls), SpecFiles (odd       *)
(* attachments and replies), SpecNaming (odd task ids, arrival times),     *)
(* SpecLossy (responses lost after the host applied the call), SpecRace    *)
(* (a second round-2 request for the same task runs concurrently),         *)
(* SpecLive (Spec with every pending step eventually taken), SpecRedact    *)
(* and SpecSlug (redactSecretsInContent and the repository naming applied  *)
(* to bounded sets of texts).                                              *)
(***************************************************************************)
EXTENDS Integers, Sequences, FiniteSets, TLC

\* ---------------------------------------------------------------- bounds
\* largest number of binary (image/audio/video base64) attachments of a request
MaxBinary == 1

\* ------------------------------------------------------ program constants
EXPECTED_SECRET == "s3cret"
GhAttempts == 3
GhDelayMs == 1000
PostRetries == 5
PostBaseMs == 1000
pollIntervalMs == 8000
maxWaitMs == 5 * 60 * 1000
possibleFiles == <<"index.html", "script.js", "README.md">>

\* ------------------------------------------------------------------ text
\* A string is a sequence of one-character strings.
LowerSeq ==
    <<"a", "b", "c", "d", "e", "f", "g", "h", "i", "j", "k", "l", "m", "n",
      "o", "p", "q", "r", "s", "t", "u", "v", "w", "x", "y", "z">>
UpperSeq ==
    <<"A", "B", "C", "D", "E", "F", "G", "H", "I", "J", "K", "L", "M", "N",
      "O", "P", "Q", "R", "S", "T", "U", "V", "W", "X", "Y", "Z">>
DigitSeq == <<"0", "1", "2", "3", "4", "5", "6", "7", "8", "9">>
Range(s) == {s[k] : k \in 1..Len(s)}
Lower == Range(LowerSeq)
Upper == Range(UpperSeq)
Digit == Range(DigitSeq)

\* String.prototype.toLowerCase, on the characters of the model
LowerChar(c) ==
    IF c \in Upper THEN LowerSeq[CHOOSE k \in 1..Len(UpperSeq) : UpperSeq[k] = c]
    ELSE c
ToLowerCase(s) == [k \in 1..Len(s) |-> LowerChar(s[k])]

\* s.slice(0, n)
Slice0(s, n) == SubSeq(s, 1, IF n < Len(s) THEN n ELSE Len(s))

\* Number.prototype.toString(36) of Date.now().  The clock of the model reads
\* 0 at EpochBase36 (Date.now() does not fit a 32-bit integer),
\* and t milliseconds are added digit by digit.
Base36Digits == DigitSeq \o LowerSeq
EpochBase36 == <<"m", "h", "l", "7", "x", "2", "p", "s">>
DigitVal(c) == (CHOOSE k \in 1..Len(Base36Digits) : Base36Digits[k] = c) - 1

RECURSIVE AddBase36(_, _, _)
AddBase36(digits, k, n) ==
    IF k = 0 THEN digits
    ELSE LET v == DigitVal(digits[k]) + n
         IN  AddBase36([digits EXCEPT ![k] = Base36Digits[(v % 36) + 1]],
                       k - 1, v \div 36)
DateNowBase36(t) == AddBase36(EpochBase36, Len(EpochBase36), t)

\* /[^a-z0-9-]+/g -> '-': a run of other characters becomes one dash
SlugChar(c) == c \in Lower \cup Digit \cup {"-"}

RECURSIVE ReplaceRuns(_, _)
ReplaceRuns(s, k) ==
    IF k > Len(s) THEN <<>>
    ELSE IF SlugChar(s[k]) THEN <<s[k]>> \o ReplaceRuns(s, k + 1)
    ELSE IF k > 1 /\ ~SlugChar(s[k - 1]) THEN ReplaceRuns(s, k + 1)
    ELSE <<"-">> \o ReplaceRuns(s, k + 1)

\* /^-+|-+$/g -> '': leading and trailing dashes are dropped
TrimDashes(s) ==
    LET kept == {k \in 1..Len(s) : s[k] # "-"}
    IN  IF kept = {} THEN <<>>
        ELSE SubSeq(s, CHOOSE k \in kept : \A j \in kept : k <= j,
                       CHOOSE k \in kept : \A j \in kept : k >= j)

SlugMaxLen == 50
SlugKeepLen == 40
SlugStampLen == 6
TaskPrefix == <<"t", "a", "s", "k", "-">>

\* slugifyTask(task), called when Date.now() is t ms after the epoch of the model
slugifyTask(task, t) ==
    IF task = <<>> THEN TaskPrefix \o DateNowBase36(t)
    ELSE LET s == TrimDashes(ReplaceRuns(ToLowerCase(task), 1))
         IN  IF Len(s) = 0 THEN TaskPrefix \o DateNowBase36(t)
             ELSE IF Len(s) > SlugMaxLen
               THEN Slice0(s, SlugKeepLen) \o <<"-">>
                      \o Slice0(DateNowBase36(t), SlugStampLen)
             ELSE s

GITHUB_USERNAME == <<"O", "c", "t", "o">>
ProjectPrefix == <<"p", "r", "o", "j", "e", "c", "t", "-">>
GithubPrefix ==
    <<"h", "t", "t", "p", "s", ":", "/", "/", "g", "i", "t", "h", "u", "b",
      ".", "c", "o", "m", "/">>
HttpsPrefix == <<"h", "t", "t", "p", "s", ":", "/", "/">>
PagesHost == <<".", "g", "i", "t", "h", "u", "b", ".", "i", "o", "/">>

\* const repoName = `project-${slugifyTask(task)}`
RepoNameOf(task, t) == ProjectPrefix \o slugifyTask(task, t)
\* const repoUrl = `https://github.com/${GITHUB_USERNAME}/${repoName}`
RepoUrlOf(name) == GithubPrefix \o GITHUB_USERNAME \o <<"/">> \o name
\* const pagesUrl = `https://${GITHUB_PAGES_USERNAME}.github.io/${repoName}/`
PagesUrlOf(name) ==
    HttpsPrefix \o ToLowerCase(GITHUB_USERNAME) \o PagesHost \o name \o <<"/">>

\* ------------------------------------------------------------- redaction
WordChars == Lower \cup Upper \cup Digit \cup {"_"}
SpaceChars == {" ", "\t", "\n"}
TokenChars == WordChars \cup {"-"}
QuoteChars == {"'", "\""}

\* the end (exclusive) of the longest run of characters of the class from k
RunEnd(s, k, class) ==
    CHOOSE e \in k..(Len(s) + 1) :
        /\ \A j \in k..(e - 1) : s[j] \in class
        /\ e = Len(s) + 1 \/ s[e] \notin class

\* the literal occurs in s at k (ci: ignoring case)
StartsWith(s, k, lit, ci) ==
    /\ k + Len(lit) - 1 <= Len(s)
    /\ \A j \in 1..Len(lit) :
          IF ci THEN LowerChar(s[k + j - 1]) = LowerChar(lit[j])
          ELSE s[k + j - 1] = lit[j]

SecretNames ==
    <<<<"G", "I", "T", "H", "U", "B", "_", "P", "A", "T">>,
      <<"G", "E", "M", "I", "N", "I", "_", "A", "P", "I", "_", "K", "E", "Y">>,
      <<"E", "X", "P", "E", "C", "T", "E", "D", "_", "S", "E", "C", "R", "E",
      "T">>,
      <<"S", "E", "C", "R", "E", "T">>>>
GhpPrefix == <<"g", "h", "p", "_">>
SkLivePrefix == <<"s", "k", "_", "l", "i", "v", "e", "_">>
Redacted == <<"[", "R", "E", "D", "A", "C", "T", "E", "D", "]">>

\* where a match of NAME\s*[:=]\s*['"]?\w+['"]? starting at k ends (exclusive),
\* for the n-th name; 0 when there is none
AssignmentEndFor(s, k, n) ==
    IF ~StartsWith(s, k, SecretNames[n], TRUE) THEN 0
    ELSE LET b == RunEnd(s, k + Len(SecretNames[n]), SpaceChars)
         IN  IF b > Len(s) \/ s[b] \notin {":", "="} THEN 0
             ELSE LET c == RunEnd(s, b + 1, SpaceChars)
                      d == IF c <= Len(s) /\ s[c] \in QuoteChars THEN c + 1 ELSE c
                      e == RunEnd(s, d, WordChars)
                  IN  IF e = d THEN 0
                      ELSE IF e <= Len(s) /\ s[e] \in QuoteChars THEN e + 1
                      ELSE e

\* the alternatives of the group are tried in order
AssignmentEnd(s, k) ==
    LET hits == {n \in 1..Len(SecretNames) : AssignmentEndFor(s, k, n) > 0}
    IN  IF hits = {} THEN 0
        ELSE AssignmentEndFor(s, k, CHOOSE n \in hits : \A m \in hits : n <= m)

\* where a match of prefix[A-Za-z0-9_\-]+ starting at k ends; 0 when none
PrefixedEnd(s, k, prefix) ==
    IF ~StartsWith(s, k, prefix, FALSE) THEN 0
    ELSE LET e == RunEnd(s, k + Len(prefix), TokenChars)
         IN  IF e = k + Len(prefix) THEN 0 ELSE e

MatchEnd(rx, s, k) ==
    CASE rx = "assignment" -> AssignmentEnd(s, k)
      [] rx = "ghp" -> PrefixedEnd(s, k, GhpPrefix)
      [] rx = "sk_live" -> PrefixedEnd(s, k, SkLivePrefix)

\* faulty variant: the expressions lack the g flag, only the first match is
\* replaced
ReplaceFirst(rx, s, k) ==
    LET hits == {j \in k..Len(s) : MatchEnd(rx, s, j) > 0}
    IN  IF hits = {} THEN s
        ELSE LET j == CHOOSE h \in hits : \A g \in hits : h <= g
             IN  SubSeq(s, 1, j - 1) \o Redacted \o
                 SubSeq(s, MatchEnd(rx, s, j), Len(s))

\* String.prototype.replace(rx /g, '[REDACTED]'), scanning from k
RECURSIVE ReplaceAll(_, _, _)
ReplaceAll(rx, s, k) ==
    IF k > Len(s) THEN <<>>
    ELSE LET e == MatchEnd(rx, s, k)
         IN  IF e > 0 THEN Redacted \o ReplaceAll(rx, s, e)
             ELSE <<s[k]>> \o ReplaceAll(rx, s, k + 1)

\* redactSecretsInContent(content), for a string
redactSecretsInContent(content) ==
    IF content = <<>> THEN content
    ELSE ReplaceAll("sk_live",
                    ReplaceAll("ghp", ReplaceAll("assignment", content, 1), 1), 1)

\* ------------------------------------------------------------- data URIs
\* the printable ASCII characters, from code 32 to code 126 (the backtick is
\* spelled out)
AsciiSeq ==
    <<" ", "!", "\"", "#", "$", "%", "&", "'", "(", ")", "*", "+", ",",
      "-", ".", "/", "0", "1", "2", "3", "4", "5", "6", "7", "8", "9", ":",
      ";", "<", "=", ">", "?", "@", "A", "B", "C", "D", "E", "F", "G", "H",
      "I", "J", "K", "L", "M", "N", "O", "P", "Q", "R", "S", "T", "U", "V",
      "W", "X", "Y", "Z", "[", "\\", "]", "^", "_", "BACKTICK", "a", "b", "c",
      "d", "e", "f", "g", "h", "i", "j", "k", "l", "m", "n", "o", "p", "q",
      "r", "s", "t", "u", "v", "w", "x", "y", "z", "{", "|", "}", "~">>
AsciiFirst == 32
ReplacementChar == "U+FFFD"
CharOfByte(b) ==
    IF b >= AsciiFirst /\ b < AsciiFirst + Len(AsciiSeq) THEN AsciiSeq[b - AsciiFirst + 1]
    ELSE IF b = 10 THEN "\n"
    ELSE ReplacementChar

Base64Seq == UpperSeq \o LowerSeq \o DigitSeq \o <<"+", "/">>
Base64Val(c) == (CHOOSE k \in 1..Len(Base64Seq) : Base64Seq[k] = c) - 1

\* Buffer.from(data, 'base64').toString('utf8'), for ASCII content: every four
\* characters give three bytes, a rest of two or three gives one or two
RECURSIVE Base64Bytes(_)
Base64Bytes(s) ==
    IF Len(s) < 2 THEN <<>>
    ELSE LET v(k) == IF k <= Len(s) THEN Base64Val(s[k]) ELSE 0
             bits == v(1) * 262144 + v(2) * 4096 + v(3) * 64 + v(4)
             three == <<bits \div 65536, (bits \div 256) % 256, bits % 256>>
         IN  IF Len(s) >= 4 THEN three \o Base64Bytes(SubSeq(s, 5, Len(s)))
             ELSE SubSeq(three, 1, Len(s) - 1)
Base64Decode(data) ==
    LET bytes == Base64Bytes(SelectSeq(data, LAMBDA c : c \in Range(Base64Seq)))
    IN  [k \in 1..Len(bytes) |-> CharOfByte(bytes[k])]

HexSeq == DigitSeq \o <<"a", "b", "c", "d", "e", "f">>
IsHex(c) == LowerChar(c) \in Range(HexSeq)
HexVal(c) == (CHOOSE k \in 1..Len(HexSeq) : HexSeq[k] = LowerChar(c)) - 1

\* the escape at k is %XX for an ASCII code
EscapeOk(s, k) ==
    /\ k + 2 <= Len(s)
    /\ IsHex(s[k + 1]) /\ IsHex(s[k + 2])
    /\ HexVal(s[k + 1]) < 8

\* decodeURIComponent throws URIError (escapes of more than one byte are
\* outside the model)
UriMalformed(s) == \E k \in 1..Len(s) : s[k] = "%" /\ ~EscapeOk(s, k)

\* decodeURIComponent(s), for a well-formed s, from k
RECURSIVE UriDecode(_, _)
UriDecode(s, k) ==
    IF k > Len(s) THEN <<>>
    ELSE IF s[k] = "%"
      THEN <<CharOfByte(16 * HexVal(s[k + 1]) + HexVal(s[k + 2]))>>
             \o UriDecode(s, k + 3)
    ELSE <<s[k]>> \o UriDecode(s, k + 1)

DataScheme == <<"d", "a", "t", "a", ":">>
Base64Flag == <<";", "b", "a", "s", "e", "6", "4">>
NoMatch == [matched |-> FALSE]

\* where the mime group of /^data:([^;]+)(;base64)?,(.+)$/ can end so that the
\* rest of the pattern matches
MimeEnds(uri) ==
    {j \in (Len(DataScheme) + 1)..Len(uri) :
        /\ \A k \in (Len(DataScheme) + 1)..j : uri[k] # ";"
        /\ \/ /\ StartsWith(uri, j + 1, Base64Flag, FALSE)
              /\ StartsWith(uri, j + 1 + Len(Base64Flag), <<",">>, FALSE)
              /\ Len(uri) > j + 1 + Len(Base64Flag)
           \/ /\ StartsWith(uri, j + 1, <<",">>, FALSE)
              /\ Len(uri) > j + 1
        /\ \A k \in (j + 1)..Len(uri) : uri[k] # "\n"}

\* parseDataUri(uri): the greedy match, or null
parseDataUri(uri) ==
    IF ~StartsWith(uri, 1, DataScheme, FALSE) \/ MimeEnds(uri) = {} THEN NoMatch
    ELSE LET j == CHOOSE e \in MimeEnds(uri) : \A f \in MimeEnds(uri) : e >= f
             isBase64 == StartsWith(uri, j + 1, Base64Flag, FALSE)
             from == IF isBase64 THEN j + 2 + Len(Base64Flag) ELSE j + 2
         IN  [matched |-> TRUE,
              mime |-> SubSeq(uri, Len(DataScheme) + 1, j),
              isBase64 |-> isBase64,
              data |-> SubSeq(uri, from, Len(uri))]

\* parsed.mime.split('/')[0]
MimeType(mime) ==
    LET slashes == {k \in 1..Len(mime) : mime[k] = "/"}
    IN  IF slashes = {} THEN mime
        ELSE SubSeq(mime, 1, (CHOOSE k \in slashes : \A m \in slashes : k <= m) - 1)

BinaryTypes == {<<"i", "m", "a", "g", "e">>,
                <<"a", "u", "d", "i", "o">>,
                <<"v", "i", "d", "e", "o">>}

\* ----------------------------------------------------------------- files
\* codeFiles maps a path to its value: a string, or { __binary: true, content }
TextValue(text) == [binary |-> FALSE, content |-> text]
BinaryValue(data) == [binary |-> TRUE, content |-> data]
NoFiles == [path \in {} |-> TextValue(<<>>)]

\* codeFiles[path] = value
Put(files, path, value) ==
    [q \in DOMAIN files \cup {path} |-> IF q = path THEN value ELSE files[q]]

\* !codeFiles[path]: absent, or the empty string
Falsy(files, path) ==
    path \notin DOMAIN files \/ files[path] = TextValue(<<>>)

MIT_LICENSE ==
    <<"P", "e", "r", "m", "i", "s", "s", "i", "o", "n", " ", "i", "s", " ",
      "h", "e", "r", "e", "b", "y", " ", "g", "r", "a", "n", "t", "e", "d",
      ".", ".", ".">>

\* if (!att || !att.name || !att.url) continue
AttSkipped(att) ==
    \/ "name" \notin DOMAIN att
    \/ att.name = ""
    \/ "url" \notin DOMAIN att
    \/ att.url = <<>>

\* the attachment is a base64 image, audio or video
AttBinary(parsed) == parsed.isBase64 /\ MimeType(parsed.mime) \in BinaryTypes

\* the text of an attachment that is not binary
AttText(parsed) ==
    IF parsed.isBase64 THEN Base64Decode(parsed.data)
    ELSE UriDecode(parsed.data, 1)

\* decodeURIComponent(parsed.data) throws for this attachment
AttThrows(att) ==
    /\ ~AttSkipped(att)
    /\ LET parsed == parseDataUri(att.url)
       IN  /\ parsed.matched
           /\ ~AttBinary(parsed)
           /\ ~parsed.isBase64
           /\ UriMalformed(parsed.data)

\* the loop over the attachments, from the k-th on
RECURSIVE MergeFrom(_, _, _)
MergeFrom(files, atts, k) ==
    IF k > Len(atts) THEN files
    ELSE IF AttSkipped(atts[k]) THEN MergeFrom(files, atts, k + 1)
    ELSE LET parsed == parseDataUri(atts[k].url)
             name == atts[k].name
         IN  IF ~parsed.matched THEN MergeFrom(files, atts, k + 1)
             ELSE IF AttBinary(parsed)
               THEN MergeFrom(Put(files, name, BinaryValue(parsed.data)),
                              atts, k + 1)
             ELSE IF Falsy(files, name)
               THEN MergeFrom(Put(files, name, TextValue(AttText(parsed))),
                              atts, k + 1)
             ELSE MergeFrom(files, atts, k + 1)

\* `${a.name} (${a.url.substring(0, 30)}...)` throws for an attachment
\* without url
PromptThrows(atts) == \E k \in 1..Len(atts) : "url" \notin DOMAIN atts[k]

\* the entry pushed to filesToCommit for a value of Object.entries(codeFiles):
\* the value the loop read, a blob for a binary one
TreeEntryOf(value) == value

\* codeFiles[path] after the loop over the entries
RedactedValue(value) ==
    IF ~value.binary /\ value.content # <<>>
      THEN TextValue(redactSecretsInContent(value.content))
    ELSE value

NBinary(entries) == Cardinality({path \in DOMAIN entries : entries[path].binary})

\* ------------------------------------------------------------ input sets
Secrets == {"", "wrong", EXPECTED_SECRET}
Rounds == {1, 2, 3}
SampleTask ==
    <<"s", "a", "m", "p", "l", "e", "-", "t", "a", "s", "k", "-", "1", "2",
      "3">>
IndexHtml == <<"<", "h", "1", ">", "H", "i", "<", "/", "h", "1", ">">>
ReadmeMd == <<"#", " ", "A", "p", "p">>
\* a reply of the model with the two mandated files
StandardReply ==
    [path \in {"index.html", "README.md"} |->
        TextValue(IF path = "index.html" THEN IndexHtml ELSE ReadmeMd)]
PngUri ==
    <<"d", "a", "t", "a", ":", "i", "m", "a", "g", "e", "/", "p", "n", "g",
      ";", "b", "a", "s", "e", "6", "4", ",", "i", "V", "B", "O">>
AssetNames == <<"logo.png", "clip.png", "icon.png">>
\* n well-formed binary attachments
BinaryAttachments(n) == [k \in 1..n |-> [name |-> AssetNames[k], url |-> PngUri]]

VARIABLES
    req,            \* the request body: secret, round, attachments, ...
    processorLoads, \* whether require('../processor') succeeds
    remoteInit,     \* whether the repository (with branch main) existed before
    replyFiles,     \* the files of the model's reply, when it is parseable JSON
    net,            \* how remote calls can fail: "flaky", "lossy" or "reliable"
    responses,      \* HTTP responses sent for the request, in order
    pc,             \* position of the handler / processRequest
    i,              \* loop index of the active retry loop (ghRetry, postWithRetry)
    waiting,        \* inside the setTimeout await of the active loop
    now,            \* clock, ms
    repoName, repoUrl, pagesUrl,
    p,              \* index into possibleFiles (round-2 getContent loop)
    existingCode,   \* path -> the commit at which its prior content was read
    genCalls,       \* calls of the model made by generateAppCode
    codeFiles,      \* path -> value, from the reply, the licence, the attachments
    treeEntries,    \* filesToCommit: the entries handed to createTree
    remote,         \* state of the repository on the version-control host
    nextSha,        \* next object id the host hands out
    tipRead,        \* the branch tip getBranch returned (0 = not read)
    baseSha,        \* 0 = undefined
    blobIdx,        \* binary attachments whose blob has been created
    treeSha, newCommitSha, commitSha,
    start, pagesOk, polls, pollWaits,
    payload, postTimes, delays, delivered,
    sent,           \* the payloads POSTed to the callback so far
    err, failedAt, logged,
    cause,          \* the error object that made processRequest fail
    issued,         \* kinds of remote call attempted so far
    succeeded,      \* kinds of remote call that returned successfully
    lost,           \* kinds of call the host applied but whose response was lost
    conflict,       \* the hosting-enable request was answered with a conflict
    peerPc,         \* position of a second, concurrent round-2 request
    peerBase,       \* its baseSha
    peerTree,       \* its tree
    peerCommit,     \* its new commit
    peerSent,       \* the commit_sha of its callback (0 = none sent)
    texts           \* specifications of one function: its argument and results

vars == <<req, processorLoads, remoteInit, replyFiles, net, responses, pc, i,
          waiting, now, repoName, repoUrl, pagesUrl, p, existingCode, genCalls,
          codeFiles, treeEntries, remote, nextSha, tipRead, baseSha, blobIdx, treeSha,
          newCommitSha, commitSha, start, pagesOk, polls, pollWaits, payload,
          postTimes, delays, delivered, sent, err, failedAt, logged, cause,
          issued, succeeded, lost, conflict, peerPc, peerBase, peerTree, peerCommit,
          peerSent, texts>>

inputVars == <<req, processorLoads, remoteInit, replyFiles, net, texts>>
nameVars == <<repoName, repoUrl, pagesUrl>>
fileVars == <<codeFiles, treeEntries>>
retryVars == <<i, waiting>>
readVars == <<p, existingCode, genCalls>>
remoteVars == <<remote, nextSha>>
pubVars == <<tipRead, baseSha, blobIdx, treeSha, newCommitSha, commitSha>>
pollVars == <<start, pagesOk, polls, pollWaits>>
notifyVars == <<payload, postTimes, delays, delivered, sent>>
errVars == <<err, failedAt, logged, cause>>
faultVars == <<lost, conflict>>
callVars == <<issued, succeeded, lost, conflict>>
peerVars == <<peerPc, peerBase, peerTree, peerCommit, peerSent>>

RECURSIVE Pow2(_)
Pow2(n) == IF n = 0 THEN 1 ELSE 2 * Pow2(n - 1)

NoPayload == [round |-> 0]

NoError == [at |-> "none", attempt |-> 0]

EmptyRemote ==
    [exists |-> FALSE, blobs |-> 0, trees |-> {}, commits |-> {}, tip |-> 0,
     pages |-> FALSE]

\* a repository left by a completed round 1: one root commit on main
BuiltRemote ==
    [exists |-> TRUE, blobs |-> 0,
     trees |-> {[sha |-> 1, base |-> 0,
                 entries |-> Put(StandardReply, "LICENSE", TextValue(MIT_LICENSE))]},
     commits |-> {[sha |-> 2, tree |-> 1, parents |-> <<>>]}, tip |-> 2,
     pages |-> TRUE]

\* the state before the POST arrives, for given inputs
InitRest ==
    /\ remote = IF remoteInit THEN BuiltRemote ELSE EmptyRemote
    /\ nextSha = 3
    /\ responses = <<>>
    /\ pc = "idle"
    /\ i = 0
    /\ waiting = FALSE
    /\ repoName = <<>>
    /\ repoUrl = <<>>
    /\ pagesUrl = <<>>
    /\ p = 0
    /\ existingCode = <<>>
    /\ genCalls = 0
    /\ codeFiles = NoFiles
    /\ treeEntries = NoFiles
    /\ tipRead = 0
    /\ baseSha = 0
    /\ blobIdx = 0
    /\ treeSha = 0
    /\ newCommitSha = 0
    /\ commitSha = 0
    /\ start = 0
    /\ pagesOk = FALSE
    /\ polls = 0
    /\ pollWaits = 0
    /\ payload = NoPayload
    /\ postTimes = <<>>
    /\ delays = <<>>
    /\ delivered = 0
    /\ sent = {}
    /\ err = "none"
    /\ failedAt = "none"
    /\ logged = FALSE
    /\ cause = NoError
    /\ issued = {}
    /\ succeeded = {}
    /\ lost = {}
    /\ conflict = FALSE
    /\ peerPc = "absent"
    /\ peerBase = 0
    /\ peerTree = 0
    /\ peerCommit = 0
    /\ peerSent = 0

Init ==
    /\ req \in [secret : Secrets, round : Rounds,
                attachments : {BinaryAttachments(n) : n \in 0..MaxBinary},
                email : {"student@example.com"}, task : {SampleTask},
                nonce : {"nonce-abc-123"}]
    /\ processorLoads \in BOOLEAN
    /\ remoteInit \in BOOLEAN
    /\ replyFiles = StandardReply
    /\ net = "flaky"
    /\ now = 0
    /\ texts = <<>>
    /\ InitRest

\* ------------------------------------------------------------ the handler
\* !secret || secret !== EXPECTED_SECRET
SecretRejected(secret) == secret = "" \/ secret # EXPECTED_SECRET

\* app.post('/'): lazy-require, verify secret, acknowledge, spawn
Post ==
    /\ pc = "idle"
    /\ IF ~processorLoads
         THEN responses' = Append(responses, 500) /\ pc' = "closed"
         ELSE IF SecretRejected(req.secret)
                THEN responses' = Append(responses, 403) /\ pc' = "closed"
                ELSE responses' = Append(responses, 200) /\ pc' = "spawned"
    /\ UNCHANGED <<inputVars, nameVars, fileVars, retryVars, now, readVars,
                   remoteVars, pubVars, pollVars, notifyVars, errVars, callVars,
                   peerVars>>

\* faulty variant: the catch handler answers the failure with a 500
CatchHandlerResponds ==
    /\ pc = "rejected"
    /\ pc' = "failed"
    /\ logged' = TRUE
    /\ responses' = Append(responses, 500)
    /\ UNCHANGED <<inputVars, nameVars, fileVars, retryVars, now, readVars,
                   remoteVars, pubVars, pollVars, notifyVars, err, failedAt,
                   cause, callVars, peerVars>>

\* .catch(err => console.error(...)) of the spawning handler
CatchHandler ==
    /\ pc = "rejected"
    /\ pc' = "failed"
    /\ logged' = TRUE
    /\ UNCHANGED <<inputVars, nameVars, fileVars, responses, retryVars, now,
                   readVars, remoteVars, pubVars, pollVars, notifyVars, err,
                   failedAt, cause, callVars, peerVars>>

\* -------------------------------------------------- processRequest, part A
\* a rejection of the processRequest promise with the given error
ThrowError(kind, e) ==
    /\ pc' = "rejected"
    /\ err' = kind
    /\ failedAt' = pc
    /\ cause' = e
    /\ UNCHANGED logged

\* the same, for an error raised by the step itself
Throw(kind) == ThrowError(kind, [at |-> pc, attempt |-> 0])

\* Promise.resolve().then(() => processRequest(data)): destructuring, naming
Start ==
    /\ pc = "spawned"
    /\ repoName' = RepoNameOf(req.task, now)
    /\ repoUrl' = RepoUrlOf(RepoNameOf(req.task, now))
    /\ pagesUrl' = PagesUrlOf(RepoNameOf(req.task, now))
    /\ pc' = IF req.round = 2 THEN "getContent" ELSE "generate"
    /\ UNCHANGED <<inputVars, fileVars, responses, retryVars, now, readVars,
                   remoteVars, pubVars, pollVars, notifyVars, errVars, callVars,
                   peerVars>>

\* faulty variant: a read that fails aborts the request
GetContentFailureAborts ==
    /\ pc = "getContent"
    /\ p < Len(possibleFiles)
    /\ issued' = issued \cup {"getContent"}
    /\ \/ /\ remote.tip # 0
          /\ existingCode' = Put(existingCode, possibleFiles[p + 1], remote.tip)
          /\ succeeded' = succeeded \cup {"getContent"}
          /\ p' = p + 1
          /\ pc' = IF p + 1 = Len(possibleFiles) THEN "generate" ELSE "getContent"
          /\ UNCHANGED errVars
       \/ /\ Throw("github")
          /\ UNCHANGED <<existingCode, succeeded, p>>
    /\ UNCHANGED <<inputVars, nameVars, fileVars, responses, retryVars, now,
                   genCalls, remoteVars, pubVars, pollVars, notifyVars,
                   faultVars, peerVars>>

\* round 2: one getContent per well-known path; a failed read is ignored
GetContent ==
    /\ pc = "getContent"
    /\ p < Len(possibleFiles)
    /\ issued' = issued \cup {"getContent"}
    /\ \/ /\ remote.tip # 0
          /\ existingCode' = Put(existingCode, possibleFiles[p + 1], remote.tip)
          /\ succeeded' = succeeded \cup {"getContent"}
       \/ UNCHANGED <<existingCode, succeeded>>
    /\ p' = p + 1
    /\ pc' = IF p + 1 = Len(possibleFiles) THEN "generate" ELSE "getContent"
    /\ UNCHANGED <<inputVars, nameVars, fileVars, responses, retryVars, now,
                   genCalls, remoteVars, pubVars, pollVars, notifyVars, errVars,
                   faultVars, peerVars>>

\* the loop over Object.entries(codeFiles): a blob per binary entry, then the
\* tree
AfterBlobs(entries, done) ==
    IF done < NBinary(entries) THEN "blobs" ELSE "createTree"

\* faulty variant: the licence is injected in every round
WithLicenseAlways(files, round) == Put(files, "LICENSE", TextValue(MIT_LICENSE))

\* if (round === 1) codeFiles['LICENSE'] = MIT_LICENSE
WithLicense(files, round) ==
    IF round = 1 THEN Put(files, "LICENSE", TextValue(MIT_LICENSE)) ELSE files

GenReplies == {"json", "callError", "unparseable"}

\* faulty variant: round 1 goes on to the commit without creating the repository
GenerateReplySkipsRepo(reply) ==
    /\ issued' = issued \cup {"generate"}
    /\ genCalls' = genCalls + 1
    /\ IF reply = "json"
         THEN /\ succeeded' = succeeded \cup {"generate"}
              /\ codeFiles' = WithLicense(replyFiles, req.round)
              /\ pc' = IF req.round = 2 THEN "getBranch" ELSE "merge"
              /\ UNCHANGED errVars
         ELSE /\ Throw("generation")
              /\ UNCHANGED <<succeeded, codeFiles>>

\* faulty variant: a failed generation is logged and the pipeline goes on
GenerateReplySwallowsError(reply) ==
    /\ issued' = issued \cup {"generate"}
    /\ genCalls' = genCalls + 1
    /\ IF reply = "json"
         THEN /\ succeeded' = succeeded \cup {"generate"}
              /\ codeFiles' = WithLicense(replyFiles, req.round)
         ELSE UNCHANGED <<succeeded, codeFiles>>
    /\ pc' = IF req.round = 1 THEN "createRepo"
             ELSE IF req.round = 2 THEN "getBranch"
             ELSE "merge"
    /\ UNCHANGED errVars

\* generateAppCode: the model call, JSON.parse of the reply; LICENSE for round 1
GenerateReply(reply) ==
    /\ issued' = issued \cup {"generate"}
    /\ genCalls' = genCalls + 1
    /\ IF reply = "json"
         THEN /\ succeeded' = succeeded \cup {"generate"}
              /\ codeFiles' = WithLicense(replyFiles, req.round)
              /\ pc' = IF req.round = 1 THEN "createRepo"
                       ELSE IF req.round = 2 THEN "getBranch"
                       ELSE "merge"
              /\ UNCHANGED errVars
         ELSE /\ Throw("generation")
              /\ UNCHANGED <<succeeded, codeFiles>>

Generate ==
    /\ pc = "generate"
    /\ IF PromptThrows(req.attachments)
         THEN /\ Throw("prompt")
              /\ UNCHANGED <<issued, succeeded, genCalls, codeFiles>>
         ELSE \E reply \in GenReplies : GenerateReply(reply)
    /\ UNCHANGED <<inputVars, nameVars, treeEntries, responses, retryVars, now,
                   p, existingCode, remoteVars, pubVars, pollVars, notifyVars,
                   faultVars, peerVars>>

\* the attachments are merged into codeFiles and the entries of the tree are
\* collected (the steps between the awaits of the publish block)
Merge ==
    /\ pc = "merge"
    /\ IF \E k \in 1..Len(req.attachments) : AttThrows(req.attachments[k])
         THEN /\ Throw("github")
              /\ UNCHANGED fileVars
         ELSE LET merged == MergeFrom(codeFiles, req.attachments, 1)
              IN  /\ treeEntries' =
                        [path \in DOMAIN merged |-> TreeEntryOf(merged[path])]
                  /\ codeFiles' =
                        [path \in DOMAIN merged |-> RedactedValue(merged[path])]
                  /\ pc' = AfterBlobs(merged, 0)
                  /\ UNCHANGED errVars
    /\ UNCHANGED <<inputVars, nameVars, responses, retryVars, now, readVars,
                   remoteVars, pubVars, pollVars, notifyVars, callVars,
                   peerVars>>

\* ------------------------------------------------------------------ ghRetry
GhStages == {"createRepo", "blobs", "createTree", "createCommit", "setRef",
             "enablePages"}

\* const wait = delayMs * Math.pow(2, i)
GhWaitMs(k) == GhDelayMs * Pow2(k)

\* lastErr = e: while the timer runs, the error of the attempt that just
\* failed, which is attempt i of the call at pc
lastErr == [at |-> pc, attempt |-> i]

\* the catch branch of ghRetry up to the await of the timer
GhFail ==
    /\ waiting' = TRUE
    /\ UNCHANGED <<i, pc, remoteVars, pubVars, succeeded, lost, errVars, start>>

\* the same, for a call the host applied before the response was lost
GhLost(call) ==
    /\ waiting' = TRUE
    /\ lost' = lost \cup {call}
    /\ UNCHANGED <<i, pc, pubVars, succeeded, errVars, start>>

\* a lossy network loses at most one response per kind of call
MayLose(call) == net = "lossy" /\ call \notin lost

\* a call the host would accept fails only on a flaky network
MayFail(accepted) == net = "flaky" \/ ~accepted

\* faulty variant: the catch around the publish steps logs the error and falls through
\* to the notification
GhWaitFallsThrough ==
    /\ pc \in GhStages
    /\ waiting
    /\ now' = now + GhWaitMs(i)
    /\ waiting' = FALSE
    /\ IF i + 1 < GhAttempts
         THEN i' = i + 1 /\ UNCHANGED <<pc, errVars>>
         ELSE /\ i' = 0
              /\ pc' = "notify"
              /\ err' = "github"
              /\ failedAt' = pc
              /\ cause' = lastErr
              /\ UNCHANGED logged
    /\ UNCHANGED <<inputVars, nameVars, fileVars, responses, readVars,
                   remoteVars, pubVars, pollVars, notifyVars, callVars,
                   peerVars>>

\* faulty variant: after the last attempt the error of the first attempt is thrown
GhWaitThrowsFirst ==
    /\ pc \in GhStages
    /\ waiting
    /\ now' = now + GhWaitMs(i)
    /\ waiting' = FALSE
    /\ IF i + 1 < GhAttempts
         THEN i' = i + 1 /\ UNCHANGED <<pc, errVars>>
         ELSE i' = 0 /\ ThrowError("github", [lastErr EXCEPT !.attempt = 0])
    /\ UNCHANGED <<inputVars, nameVars, fileVars, responses, readVars,
                   remoteVars, pubVars, pollVars, notifyVars, callVars,
                   peerVars>>

\* the timer of ghRetry fires: next iteration, or throw lastErr after the last
GhWait ==
    /\ pc \in GhStages
    /\ waiting
    /\ now' = now + GhWaitMs(i)
    /\ waiting' = FALSE
    /\ IF i + 1 < GhAttempts
         THEN i' = i + 1 /\ UNCHANGED <<pc, errVars>>
         ELSE i' = 0 /\ ThrowError("github", lastErr)
    /\ UNCHANGED <<inputVars, nameVars, fileVars, responses, readVars,
                   remoteVars, pubVars, pollVars, notifyVars, callVars,
                   peerVars>>

\* -------------------------------------------------- processRequest, part B
\* 1. createForAuthenticatedUser (round 1 only), wrapped in ghRetry
CreateRepo ==
    /\ pc = "createRepo"
    /\ ~waiting
    /\ issued' = issued \cup {"createRepo"}
    /\ \/ /\ ~remote.exists
          /\ remote' = [remote EXCEPT !.exists = TRUE]
          /\ succeeded' = succeeded \cup {"createRepo"}
          /\ i' = 0
          /\ pc' = "merge"
          /\ UNCHANGED <<waiting, nextSha, pubVars, errVars, lost>>
       \/ /\ ~remote.exists
          /\ MayLose("createRepo")
          /\ remote' = [remote EXCEPT !.exists = TRUE]
          /\ GhLost("createRepo")
          /\ UNCHANGED nextSha
       \/ /\ MayFail(~remote.exists)
          /\ GhFail
    /\ UNCHANGED <<inputVars, nameVars, fileVars, responses, now, readVars,
                   pollVars, notifyVars, tipRead, conflict, peerVars>>

\* faulty variant: a failed getBranch is ignored and the request goes on
\* without a base
GetBranchFailureIgnored ==
    /\ pc = "getBranch"
    /\ issued' = issued \cup {"getBranch"}
    /\ \/ /\ remote.tip # 0
          /\ tipRead' = remote.tip
          /\ baseSha' = remote.tip
          /\ succeeded' = succeeded \cup {"getBranch"}
       \/ UNCHANGED <<tipRead, baseSha, succeeded>>
    /\ pc' = "merge"
    /\ UNCHANGED <<inputVars, nameVars, fileVars, responses, retryVars, now,
                   readVars, remoteVars, blobIdx, treeSha, newCommitSha,
                   commitSha, pollVars, notifyVars, errVars, faultVars,
                   peerVars>>

\* 2. round 2: getBranch, a single attempt; baseSha = branch.data.commit.sha
GetBranch ==
    /\ pc = "getBranch"
    /\ issued' = issued \cup {"getBranch"}
    /\ \/ /\ remote.tip # 0
          /\ tipRead' = remote.tip
          /\ baseSha' = remote.tip
          /\ succeeded' = succeeded \cup {"getBranch"}
          /\ pc' = "merge"
          /\ UNCHANGED errVars
       \/ /\ Throw("github")
          /\ UNCHANGED <<tipRead, baseSha, succeeded>>
    /\ UNCHANGED <<inputVars, nameVars, fileVars, responses, retryVars, now,
                   readVars, remoteVars, blobIdx, treeSha, newCommitSha,
                   commitSha, pollVars, notifyVars, faultVars, peerVars>>

\* createBlob for the next binary attachment, wrapped in ghRetry
CreateBlob ==
    /\ pc = "blobs"
    /\ ~waiting
    /\ issued' = issued \cup {"createBlob"}
    /\ \/ /\ remote.exists
          /\ remote' = [remote EXCEPT !.blobs = @ + 1]
          /\ blobIdx' = blobIdx + 1
          /\ succeeded' = succeeded \cup {"createBlob"}
          /\ i' = 0
          /\ pc' = AfterBlobs(treeEntries, blobIdx + 1)
          /\ UNCHANGED <<waiting, nextSha, baseSha, treeSha, newCommitSha,
                         commitSha, errVars, lost>>
       \/ /\ remote.exists
          /\ MayLose("createBlob")
          /\ remote' = [remote EXCEPT !.blobs = @ + 1]
          /\ GhLost("createBlob")
          /\ UNCHANGED nextSha
       \/ /\ MayFail(remote.exists)
          /\ GhFail
    /\ UNCHANGED <<inputVars, nameVars, fileVars, responses, now, readVars,
                   pollVars, notifyVars, tipRead, conflict, peerVars>>

\* if (baseSha) treeParams.base_tree = baseSha
BaseTreeOf(b) == IF b # 0 THEN b ELSE 0

\* faulty variant: every commit is created as a root commit
ParentsOfNone(b) == <<>>

\* parents: baseSha ? [baseSha] : []
ParentsOf(b) == IF b # 0 THEN <<b>> ELSE <<>>

\* createTree, wrapped in ghRetry
CreateTree ==
    /\ pc = "createTree"
    /\ ~waiting
    /\ issued' = issued \cup {"createTree"}
    /\ \/ /\ remote.exists
          /\ remote' = [remote EXCEPT !.trees =
                          @ \cup {[sha |-> nextSha, base |-> BaseTreeOf(baseSha),
                                   entries |-> treeEntries]}]
          /\ treeSha' = nextSha
          /\ nextSha' = nextSha + 1
          /\ succeeded' = succeeded \cup {"createTree"}
          /\ i' = 0
          /\ pc' = "createCommit"
          /\ UNCHANGED <<waiting, baseSha, blobIdx, newCommitSha, commitSha,
                         errVars, lost>>
       \/ /\ remote.exists
          /\ MayLose("createTree")
          /\ remote' = [remote EXCEPT !.trees =
                          @ \cup {[sha |-> nextSha, base |-> BaseTreeOf(baseSha),
                                   entries |-> treeEntries]}]
          /\ nextSha' = nextSha + 1
          /\ GhLost("createTree")
       \/ /\ MayFail(remote.exists)
          /\ GhFail
    /\ UNCHANGED <<inputVars, nameVars, fileVars, responses, now, readVars,
                   pollVars, notifyVars, tipRead, conflict, peerVars>>

\* createCommit, wrapped in ghRetry
CreateCommit ==
    /\ pc = "createCommit"
    /\ ~waiting
    /\ issued' = issued \cup {"createCommit"}
    /\ \/ /\ remote.exists
          /\ remote' = [remote EXCEPT !.commits =
                          @ \cup {[sha |-> nextSha, tree |-> treeSha,
                                   parents |-> ParentsOf(baseSha)]}]
          /\ newCommitSha' = nextSha
          /\ nextSha' = nextSha + 1
          /\ succeeded' = succeeded \cup {"createCommit"}
          /\ i' = 0
          /\ pc' = "setRef"
          /\ UNCHANGED <<waiting, baseSha, blobIdx, treeSha, commitSha, errVars,
                         lost>>
       \/ /\ remote.exists
          /\ MayLose("createCommit")
          /\ remote' = [remote EXCEPT !.commits =
                          @ \cup {[sha |-> nextSha, tree |-> treeSha,
                                   parents |-> ParentsOf(baseSha)]}]
          /\ nextSha' = nextSha + 1
          /\ GhLost("createCommit")
       \/ /\ MayFail(remote.exists)
          /\ GhFail
    /\ UNCHANGED <<inputVars, nameVars, fileVars, responses, now, readVars,
                   pollVars, notifyVars, tipRead, conflict, peerVars>>

\* faulty variant: the branch is always updated, never created (as in the
\* earlier version of the publish block)
RefCallAlwaysUpdate(b) == "updateRef"

\* if (!baseSha) createRef else updateRef
RefCall(b) == IF b = 0 THEN "createRef" ELSE "updateRef"

\* faulty variant: the host accepts an update only while the branch is where
\* the repository was left by round 1 (an expected-SHA check)
RefAcceptedIfUnmoved(call) ==
    /\ remote.exists
    /\ IF call = "createRef" THEN remote.tip = 0
       ELSE remote.tip # 0 /\ remote.tip = BuiltRemote.tip

\* the host accepts createRef only for a new branch, updateRef only for an
\* existing one
RefAccepted(call) ==
    /\ remote.exists
    /\ IF call = "createRef" THEN remote.tip = 0 ELSE remote.tip # 0

\* const start = Date.now(), on entering the poll loop
EnterPoll ==
    /\ pc' = "poll"
    /\ start' = now

\* createRef / updateRef wrapped in ghRetry; commitSha = newCommit.data.sha
SetRef ==
    /\ pc = "setRef"
    /\ ~waiting
    /\ issued' = issued \cup {RefCall(baseSha)}
    /\ \/ /\ RefAccepted(RefCall(baseSha))
          /\ remote' = [remote EXCEPT !.tip = newCommitSha]
          /\ commitSha' = newCommitSha
          /\ succeeded' = succeeded \cup {RefCall(baseSha)}
          /\ i' = 0
          /\ IF req.round = 1
               THEN pc' = "enablePages" /\ UNCHANGED start
               ELSE EnterPoll
          /\ UNCHANGED <<waiting, nextSha, baseSha, blobIdx, treeSha,
                         newCommitSha, errVars, lost>>
       \/ /\ RefAccepted(RefCall(baseSha))
          /\ MayLose(RefCall(baseSha))
          /\ remote' = [remote EXCEPT !.tip = newCommitSha]
          /\ GhLost(RefCall(baseSha))
          /\ UNCHANGED nextSha
       \/ /\ MayFail(RefAccepted(RefCall(baseSha)))
          /\ GhFail
    /\ UNCHANGED <<inputVars, nameVars, fileVars, responses, now, readVars,
                   pagesOk, polls, pollWaits, notifyVars, tipRead, conflict,
                   peerVars>>

\* the host enables hosting for a repository that has none, and answers a
\* request for one that already has it with a conflict (409)
PagesAccepted == remote.exists /\ ~remote.pages
PagesConflict == remote.exists /\ remote.pages

\* 3. round 1: PUT /repos/{owner}/{repo}/pages, wrapped in ghRetry; the
\* conflict is an error like any other
EnablePages ==
    /\ pc = "enablePages"
    /\ ~waiting
    /\ issued' = issued \cup {"enablePages"}
    /\ \/ /\ PagesAccepted
          /\ remote' = [remote EXCEPT !.pages = TRUE]
          /\ succeeded' = succeeded \cup {"enablePages"}
          /\ i' = 0
          /\ EnterPoll
          /\ UNCHANGED <<waiting, nextSha, pubVars, errVars, faultVars>>
       \/ /\ PagesAccepted
          /\ MayLose("enablePages")
          /\ remote' = [remote EXCEPT !.pages = TRUE]
          /\ GhLost("enablePages")
          /\ UNCHANGED <<nextSha, conflict>>
       \/ /\ PagesConflict
          /\ conflict' = TRUE
          /\ GhFail
       \/ /\ MayFail(remote.exists)
          /\ ~PagesConflict
          /\ GhFail
          /\ UNCHANGED conflict
    /\ UNCHANGED <<inputVars, nameVars, fileVars, responses, now, readVars,
                   pagesOk, polls, pollWaits, notifyVars, tipRead, peerVars>>

\* ----------------------------------------- processRequest, poll and notify
\* faulty variant: the payload names the tree instead of the commit
BuildPayloadNamesTree ==
    [email |-> req.email, task |-> req.task, round |-> req.round,
     nonce |-> req.nonce, repo_url |-> repoUrl, commit_sha |-> treeSha,
     pages_url |-> pagesUrl]

\* const payload = { email, task, round, nonce, repo_url, commit_sha, pages_url }
BuildPayload ==
    [email |-> req.email, task |-> req.task, round |-> req.round,
     nonce |-> req.nonce, repo_url |-> repoUrl, commit_sha |-> commitSha,
     pages_url |-> pagesUrl]

\* leaving the try block: the payload is built and postWithRetry is entered
LeavePoll ==
    /\ pc' = "notify"
    /\ payload' = BuildPayload

\* while (Date.now() - start < maxWaitMs)
PollOpen == now - start < maxWaitMs

PollStatuses == {200, 404, 0}

\* faulty variant: the 200 is recorded but the loop has no break
PollResultNoBreak(status) ==
    /\ polls' = polls + 1
    /\ pagesOk' = (pagesOk \/ status = 200)
    /\ waiting' = TRUE
    /\ UNCHANGED <<pc, payload>>

\* one axios.get of the pages URL (0 stands for a network error)
PollResult(status) ==
    /\ polls' = polls + 1
    /\ IF status = 200
         THEN /\ pagesOk' = TRUE
              /\ LeavePoll
              /\ UNCHANGED waiting
         ELSE /\ waiting' = TRUE
              /\ UNCHANGED <<pagesOk, pc, payload>>

Poll ==
    /\ pc = "poll"
    /\ ~waiting
    /\ PollOpen
    /\ issued' = issued \cup {"poll"}
    /\ \E status \in PollStatuses : PollResult(status)
    /\ UNCHANGED <<inputVars, nameVars, fileVars, responses, i, now, readVars,
                   remoteVars, pubVars, start, pollWaits, postTimes, delays,
                   delivered, sent, errVars, succeeded, faultVars, peerVars>>

\* await new Promise(resolve => setTimeout(resolve, pollIntervalMs))
PollWait ==
    /\ pc = "poll"
    /\ waiting
    /\ now' = now + pollIntervalMs
    /\ pollWaits' = pollWaits + 1
    /\ waiting' = FALSE
    /\ UNCHANGED <<inputVars, nameVars, fileVars, responses, pc, i, readVars,
                   remoteVars, pubVars, start, pagesOk, polls, notifyVars,
                   errVars, callVars, peerVars>>

\* faulty variant: a site that is not live at the timeout fails the request
PollTimeoutIsFatal ==
    /\ pc = "poll"
    /\ ~waiting
    /\ ~PollOpen
    /\ Throw("github")
    /\ UNCHANGED <<inputVars, nameVars, fileVars, responses, retryVars, now,
                   readVars, remoteVars, pubVars, pollVars, notifyVars,
                   callVars, peerVars>>

\* the loop condition fails: warn and go on to notify
PollTimeout ==
    /\ pc = "poll"
    /\ ~waiting
    /\ ~PollOpen
    /\ LeavePoll
    /\ UNCHANGED <<inputVars, nameVars, fileVars, responses, retryVars, now,
                   readVars, remoteVars, pubVars, pollVars, postTimes, delays,
                   delivered, sent, errVars, callVars, peerVars>>

\* faulty variant: linear backoff
PostDelayLinear(k) == (k + 1) * PostBaseMs

\* const delay = Math.pow(2, i) * 1000
PostDelayMs(k) == Pow2(k) * PostBaseMs

PostResults == {"ok", "fail"}

\* faulty variant: a successful POST does not return from the loop
PostResultNoReturn(res) ==
    /\ postTimes' = Append(postTimes, now)
    /\ sent' = sent \cup {payload}
    /\ waiting' = TRUE
    /\ IF res = "ok"
         THEN /\ delivered' = delivered + 1
              /\ succeeded' = succeeded \cup {"post"}
         ELSE UNCHANGED <<delivered, succeeded>>
    /\ UNCHANGED pc

\* faulty variant: every retry rebuilds the payload and stamps the attempt into it
PostResultStampsAttempt(res) ==
    /\ postTimes' = Append(postTimes, now)
    /\ sent' = sent \cup {[payload EXCEPT !.round = @ + i]}
    /\ IF res = "ok"
         THEN /\ delivered' = delivered + 1
              /\ succeeded' = succeeded \cup {"post"}
              /\ pc' = "done"
              /\ UNCHANGED waiting
         ELSE /\ waiting' = TRUE
              /\ UNCHANGED <<delivered, succeeded, pc>>

\* one axios.post of postWithRetry
PostResult(res) ==
    /\ postTimes' = Append(postTimes, now)
    /\ sent' = sent \cup {payload}
    /\ IF res = "ok"
         THEN /\ delivered' = delivered + 1
              /\ succeeded' = succeeded \cup {"post"}
              /\ pc' = "done"
              /\ UNCHANGED waiting
         ELSE /\ waiting' = TRUE
              /\ UNCHANGED <<delivered, succeeded, pc>>

PostAttempt ==
    /\ pc = "notify"
    /\ ~waiting
    /\ i < PostRetries
    /\ issued' = issued \cup {"post"}
    /\ \E res \in PostResults : PostResult(res)
    /\ UNCHANGED <<inputVars, nameVars, fileVars, responses, i, now, readVars,
                   remoteVars, pubVars, pollVars, payload, delays, errVars,
                   faultVars, peerVars>>

\* faulty variant: after the last wait the loop ends without a throw, so the
\* request ends with neither a delivered callback nor a logged failure
PostWaitReturnsSilently ==
    /\ pc = "notify"
    /\ waiting
    /\ now' = now + PostDelayMs(i)
    /\ delays' = Append(delays, PostDelayMs(i))
    /\ waiting' = FALSE
    /\ IF i = PostRetries - 1
         THEN pc' = "done" /\ UNCHANGED <<i, errVars>>
         ELSE i' = i + 1 /\ UNCHANGED <<pc, errVars>>
    /\ UNCHANGED <<inputVars, nameVars, fileVars, responses, readVars,
                   remoteVars, pubVars, pollVars, payload, postTimes, delivered,
                   sent, callVars, peerVars>>

\* the catch branch of postWithRetry: wait, then throw after the last attempt
PostWait ==
    /\ pc = "notify"
    /\ waiting
    /\ now' = now + PostDelayMs(i)
    /\ delays' = Append(delays, PostDelayMs(i))
    /\ waiting' = FALSE
    /\ IF i = PostRetries - 1
         THEN Throw("notify") /\ UNCHANGED i
         ELSE i' = i + 1 /\ UNCHANGED <<pc, errVars>>
    /\ UNCHANGED <<inputVars, nameVars, fileVars, responses, readVars,
                   remoteVars, pubVars, pollVars, payload, postTimes, delivered,
                   sent, callVars, peerVars>>

Next ==
    \/ Post \/ CatchHandler \/ Start \/ GetContent \/ Generate \/ GhWait
    \/ CreateRepo \/ GetBranch \/ Merge \/ CreateBlob \/ CreateTree \/ CreateCommit
    \/ SetRef \/ EnablePages \/ Poll \/ PollWait \/ PollTimeout
    \/ PostAttempt \/ PostWait

Spec == Init /\ [][Next]_vars

\* positions at which nothing is pending: the response closed the request, or
\* the processRequest promise settled and its rejection was logged
Resting == {"closed", "done", "failed"}

PcValues ==
    {"idle", "spawned", "getContent", "generate", "merge", "poll", "notify",
     "getBranch", "rejected"} \cup GhStages \cup Resting

\* the variables of which every step changes at least one
progress == <<pc, waiting, p, blobIdx, polls>>

\* what the steps of a request that is not at rest have in common
Resume ==
    /\ pc \notin Resting
    /\ pc' \in PcValues
    /\ waiting' \in BOOLEAN
    /\ p' \in {p, p + 1}
    /\ blobIdx' \in {blobIdx, blobIdx + 1}
    /\ polls' \in {polls, polls + 1}

\* Every remote call returns or fails and every timer fires: a request that
\* is not at rest eventually takes its next step.  (Fairness is stated on
\* Resume rather than on Next; the two have the same steps and are enabled in
\* the same states, and Resume does not compute the next file contents.)
SpecLive == Init /\ [][Next]_vars /\ WF_progress(Resume)

\* ------------------------------------------- requests with attachments
\* a binary attachment named like a generated file
AttBinaryClash == [name |-> "index.html", url |-> PngUri]
\* text attachments named like a generated file
AttTextClash ==
    [name |-> "index.html",
     url |-> <<"d", "a", "t", "a", ":", "t", "e", "x", "t", "/", "h", "t", "m",
          "l", ",", "<", "b", ">", "m", "i", "n", "e", "<", "/", "b", ">">>]
AttScript ==
    [name |-> "script.js",
     url |-> <<"d", "a", "t", "a", ":", "t", "e", "x", "t", "/", "j", "a", "v",
          "a", "s", "c", "r", "i", "p", "t", ",", "g", "o", "(", ")">>]
\* a text attachment with a new name, percent-encoded
AttCsv ==
    [name |-> "data.csv",
     url |-> <<"d", "a", "t", "a", ":", "t", "e", "x", "t", "/", "c", "s", "v",
          ",", "a", "%", "2", "C", "b">>]
\* text attachments that carry a secret, percent-encoded and base64
AttToken ==
    [name |-> "config.js",
     url |-> <<"d", "a", "t", "a", ":", "t", "e", "x", "t", "/", "p", "l", "a",
          "i", "n", ",", "k", "%", "3", "D", "g", "h", "p", "_", "A", "b",
          "1">>]
AttEnv ==
    [name |-> "env.txt",
     url |-> <<"d", "a", "t", "a", ":", "t", "e", "x", "t", "/", "p", "l", "a",
          "i", "n", ";", "b", "a", "s", "e", "6", "4", ",", "U", "0", "V",
          "D", "U", "k", "V", "U", "P", "W", "F", "i", "Y", "w", "=", "=">>]
\* malformed attachments: not a data URI, a bad percent-escape, no url, no name
AttLink ==
    [name |-> "photo.png",
     url |-> <<"h", "t", "t", "p", "s", ":", "/", "/", "e", "x", "a", "m", "p",
          "l", "e", ".", "c", "o", "m", "/", "p", ".", "p", "n", "g">>]
AttBadEscape ==
    [name |-> "notes.txt",
     url |-> <<"d", "a", "t", "a", ":", "t", "e", "x", "t", "/", "p", "l", "a",
          "i", "n", ",", "1", "0", "0", "%">>]
AttNoUrl == [name |-> "notes.txt"]
AttNoName == [url |-> PngUri]

\* replies of the model: an empty script.js, a secret in index.html, and a
\* reply without README.md
ReplyEmptyScript == Put(StandardReply, "script.js", TextValue(<<>>))
ReplyWithSecret ==
    Put(StandardReply, "index.html",
        TextValue(<<"<", "i", ">", "s", "k", "_", "l", "i", "v", "e", "_", "9", "x",
          "<", "/", "i", ">">>))
ReplyNoReadme == [path \in {"index.html"} |-> TextValue(IndexHtml)]

FileCases ==
    {[attachments |-> <<a>>, reply |-> StandardReply] :
        a \in {AttBinaryClash, AttTextClash, AttScript, AttCsv, AttToken, AttEnv,
               AttLink, AttBadEscape, AttNoUrl, AttNoName}}
    \cup {[attachments |-> <<AttScript>>, reply |-> ReplyEmptyScript],
          [attachments |-> <<>>, reply |-> ReplyWithSecret],
          [attachments |-> <<>>, reply |-> ReplyNoReadme],
          [attachments |-> <<AttBadEscape, AttCsv>>, reply |-> StandardReply]}

\* accepted requests of round 1 (new repository) and round 2 (existing one)
InitFiles ==
    /\ \E c \in FileCases :
          /\ req \in [secret : {EXPECTED_SECRET}, round : {1, 2},
                      attachments : {c.attachments},
                      email : {"student@example.com"}, task : {SampleTask},
                      nonce : {"nonce-abc-123"}]
          /\ replyFiles = c.reply
    /\ processorLoads = TRUE
    /\ remoteInit = (req.round = 2)
    /\ net = "flaky"
    /\ now = 0
    /\ texts = <<>>
    /\ InitRest

SpecFiles == InitFiles /\ [][Next]_vars

\* ------------------------------------------- a concurrent second request
\* A second round-2 request for the same task (hence the same repository) is
\* processed while the first is: its version-control calls, without failures.
PeerSteps == <<inputVars, nameVars, fileVars, responses, pc, retryVars, now,
               readVars, pubVars, pollVars, notifyVars, errVars, callVars>>

\* the positions of the first request up to its reference update
BeforeRef == {"spawned", "getContent", "generate", "getBranch", "merge", "blobs",
              "createTree", "createCommit", "setRef"}

\* the second request is accepted, while the first has not yet moved the
\* branch, and reaches its getBranch
PeerStart ==
    /\ peerPc = "absent"
    /\ pc \in BeforeRef
    /\ peerPc' = "getBranch"
    /\ UNCHANGED <<PeerSteps, remoteVars, peerBase, peerTree, peerCommit,
                   peerSent>>

\* getBranch; baseSha = branch.data.commit.sha
PeerGetBranch ==
    /\ peerPc = "getBranch"
    /\ IF remote.tip # 0
         THEN peerBase' = remote.tip /\ peerPc' = "createTree"
         ELSE peerPc' = "failed" /\ UNCHANGED peerBase
    /\ UNCHANGED <<PeerSteps, remoteVars, peerTree, peerCommit, peerSent>>

\* createTree with base_tree = baseSha
PeerCreateTree ==
    /\ peerPc = "createTree"
    /\ remote' = [remote EXCEPT !.trees =
                    @ \cup {[sha |-> nextSha, base |-> BaseTreeOf(peerBase),
                             entries |-> replyFiles]}]
    /\ peerTree' = nextSha
    /\ nextSha' = nextSha + 1
    /\ peerPc' = "createCommit"
    /\ UNCHANGED <<PeerSteps, peerBase, peerCommit, peerSent>>

\* createCommit with parents: [baseSha]
PeerCreateCommit ==
    /\ peerPc = "createCommit"
    /\ remote' = [remote EXCEPT !.commits =
                    @ \cup {[sha |-> nextSha, tree |-> peerTree,
                             parents |-> ParentsOf(peerBase)]}]
    /\ peerCommit' = nextSha
    /\ nextSha' = nextSha + 1
    /\ peerPc' = "setRef"
    /\ UNCHANGED <<PeerSteps, peerBase, peerTree, peerSent>>

\* updateRef heads/main to the new commit
PeerUpdateRef ==
    /\ peerPc = "setRef"
    /\ IF RefAccepted(RefCall(peerBase))
         THEN remote' = [remote EXCEPT !.tip = peerCommit] /\ peerPc' = "notify"
         ELSE peerPc' = "failed" /\ UNCHANGED remote
    /\ UNCHANGED <<PeerSteps, nextSha, peerBase, peerTree, peerCommit, peerSent>>

\* the callback of the second request: commit_sha = its new commit
PeerNotify ==
    /\ peerPc = "notify"
    /\ peerSent' = peerCommit
    /\ peerPc' = "done"
    /\ UNCHANGED <<PeerSteps, remoteVars, peerBase, peerTree, peerCommit>>

\* round-2 requests on a reliable network
InitRace ==
    /\ req \in [secret : {EXPECTED_SECRET}, round : {2},
                attachments : {BinaryAttachments(n) : n \in 0..MaxBinary},
                email : {"student@example.com"}, task : {SampleTask},
                nonce : {"nonce-abc-123"}]
    /\ processorLoads = TRUE
    /\ remoteInit = TRUE
    /\ replyFiles = StandardReply
    /\ net = "reliable"
    /\ now = 0
    /\ texts = <<>>
    /\ InitRest

\* the steps of a round-2 request whose version-control calls do not fail,
\* and those of the second request
NextRace ==
    \/ Post \/ CatchHandler \/ Start \/ GetContent \/ Generate \/ GetBranch
    \/ Merge \/ CreateBlob \/ CreateTree \/ CreateCommit \/ SetRef
    \/ Poll \/ PollWait \/ PollTimeout \/ PostAttempt \/ PostWait
    \/ PeerStart \/ PeerGetBranch \/ PeerCreateTree \/ PeerCreateCommit
    \/ PeerUpdateRef \/ PeerNotify

SpecRace == InitRace /\ [][NextRace]_vars

\* ------------------------------------------------------------- naming
\* task ids: a plain one, one with capitals and other characters, the empty
\* one, one whose slug is empty, and one whose slug has more than 50 characters
MixedTask == <<"M", "y", " ", "A", "p", "p", " ", "v", "2", "!">>
SymbolTask == <<"!", "?">>
LongTask == [k \in 1..(SlugMaxLen + 1) |-> "x"]
NamingTasks == {SampleTask, MixedTask, <<>>, SymbolTask, LongTask}
\* when the request arrives, in ms on the clock of the model
ArrivalTimes == {0, 2000}

InitNaming ==
    /\ req \in [secret : {EXPECTED_SECRET}, round : {1, 2},
                attachments : {BinaryAttachments(MaxBinary)},
                email : {"student@example.com"}, task : NamingTasks,
                nonce : {"nonce-abc-123"}]
    /\ processorLoads = TRUE
    /\ remoteInit = (req.round = 2)
    /\ replyFiles = StandardReply
    /\ net = "flaky"
    /\ now \in ArrivalTimes
    /\ texts = <<>>
    /\ InitRest

SpecNaming == InitNaming /\ [][Next]_vars

\* ---------------------------------------------------- lost responses
\* accepted requests on a network that can lose a response: the host applies
\* the call and the client sees it fail
InitLossy ==
    /\ req \in [secret : {EXPECTED_SECRET}, round : {1, 2},
                attachments : {BinaryAttachments(n) : n \in 0..MaxBinary},
                email : {"student@example.com"}, task : {SampleTask},
                nonce : {"nonce-abc-123"}]
    /\ processorLoads = TRUE
    /\ remoteInit = (req.round = 2)
    /\ replyFiles = StandardReply
    /\ net = "lossy"
    /\ now = 0
    /\ texts = <<>>
    /\ InitRest

SpecLossy == InitLossy /\ [][Next]_vars

\* ------------------------------------------------- redaction on its own
\* longest text, in pieces
MaxPieces == 4

\* what the texts are made of: a secret name, the separators and quotes of
\* an assignment, word and token characters, the token prefixes
Pieces ==
    <<<<"S", "E", "C", "R", "E", "T">>, <<"=">>, <<" ">>, <<"'">>, <<"a">>,
      <<"-">>, <<"g", "h", "p", "_">>, <<"s", "k", "_", "l", "i", "v", "e", "_">>,
      <<"g", "h", "p", "_", "a">>>>

RECURSIVE TextsOf(_)
TextsOf(n) ==
    IF n = 0 THEN {<<>>}
    ELSE LET shorter == TextsOf(n - 1)
         IN  shorter \cup {t \o Pieces[k] : t \in shorter, k \in 1..Len(Pieces)}

\* everything but texts
pipelineVars ==
    <<req, processorLoads, remoteInit, replyFiles, net, responses, pc, now,
      nameVars, fileVars, retryVars, readVars, remoteVars, pubVars, pollVars,
      notifyVars, errVars, callVars, peerVars>>

\* no request; one text
InitRedact ==
    /\ req = [secret |-> "", round |-> 1, attachments |-> <<>>,
              email |-> "student@example.com", task |-> SampleTask,
              nonce |-> "nonce-abc-123"]
    /\ processorLoads = TRUE
    /\ remoteInit = FALSE
    /\ replyFiles = StandardReply
    /\ net = "reliable"
    /\ now = 0
    /\ texts \in {<<t>> : t \in TextsOf(MaxPieces)}
    /\ InitRest

\* redactSecretsInContent applied to the text, then to its own result
Redact ==
    /\ Len(texts) \in {1, 2}
    /\ texts' = Append(texts, redactSecretsInContent(texts[Len(texts)]))
    /\ UNCHANGED pipelineVars

SpecRedact == InitRedact /\ [][Redact]_vars

\* ---------------------------------------------------- naming on its own
PlainTask == <<"m", "y", "-", "a", "p", "p", "-", "v", "2">>
LongTaskTwin == [k \in 1..(SlugMaxLen + 2) |-> "x"]
SlugTasks == NamingTasks \cup {PlainTask, LongTaskTwin}

\* two requests for different tasks
InitSlug ==
    /\ req = [secret |-> "", round |-> 1, attachments |-> <<>>,
              email |-> "student@example.com", task |-> SampleTask,
              nonce |-> "nonce-abc-123"]
    /\ processorLoads = TRUE
    /\ remoteInit = FALSE
    /\ replyFiles = StandardReply
    /\ net = "reliable"
    /\ now = 0
    /\ texts \in {pair \in SlugTasks \X SlugTasks : pair[1] # pair[2]}
    /\ InitRest

\* each request derives its repoName, at its own time
DeriveNames ==
    /\ Len(texts) = 2
    /\ \E t1 \in ArrivalTimes, t2 \in ArrivalTimes :
          texts' = texts \o <<RepoNameOf(texts[1], t1), RepoNameOf(texts[2], t2)>>
    /\ UNCHANGED pipelineVars

SpecSlug == InitSlug /\ [][DeriveNames]_vars

\* ================================================================== claims
Aborted == {"rejected", "failed"}

\* C1: a request whose secret is absent or wrong is answered 403 and starts no
\* generation call, no version-control call and no callback POST, whether or
\* not the processor module can be loaded.
C1_BadSecretIs403 ==
    (pc # "idle" /\ SecretRejected(req.secret)) =>
        /\ responses = <<403>>
        /\ pc = "closed"
        /\ issued = {}
        /\ genCalls = 0
        /\ postTimes = <<>>

\* C2: with a valid secret the 200 acknowledgement precedes the first remote
\* call of the pipeline, exactly one response is sent, and a failure of the
\* pipeline at any stage is caught by the handler without a further response.
C2_AckBeforePipeline ==
    /\ (issued # {} => responses = <<200>>)
    /\ (pc # "idle" => Len(responses) = 1)
    /\ (pc # "idle" /\ processorLoads /\ ~SecretRejected(req.secret)
          => responses = <<200>>)
    /\ (pc = "rejected" => ENABLED CatchHandler)
    /\ (pc \in Aborted => responses = <<200>>)
    /\ (pc = "failed" => logged)

C2_Witness ==
    /\ pc = "failed"
    /\ failedAt = "notify"
    /\ responses = <<200>>
    /\ req.secret = EXPECTED_SECRET

\* ---------------------------------------------------------------------------
RefCalls == {"createRef", "updateRef"}
MutatingCalls == {"createRepo", "createBlob", "createTree", "createCommit",
                  "createRef", "updateRef", "enablePages"}
InitRemote == IF remoteInit THEN BuiltRemote ELSE EmptyRemote
TreeObj(sha) == CHOOSE t \in remote.trees : t.sha = sha
CommitObj(sha) == CHOOSE c \in remote.commits : c.sha = sha

\* C3: in round 1 the repository creation has returned before a tree or
\* commit creation is attempted, the commit exists before the branch
\* reference call, and the reference call has returned before the
\* hosting-enable request.
C3_Round1Order ==
    req.round = 1 =>
        /\ ({"createBlob", "createTree", "createCommit"} \cap issued # {}
              => "createRepo" \in succeeded /\ remote.exists)
        /\ ("createCommit" \in issued => "createTree" \in succeeded)
        /\ (RefCalls \cap issued # {}
              => /\ "createCommit" \in succeeded
                 /\ \E c \in remote.commits : c.sha = newCommitSha)
        /\ ("enablePages" \in issued
              => RefCalls \cap succeeded # {} /\ remote.tip = newCommitSha)

C3_Witness ==
    /\ req.round = 1
    /\ "enablePages" \in succeeded
    /\ remote.pages
    /\ remote.tip = newCommitSha

\* C4: in round 2 the base of the new tree and the single parent of the new
\* commit are the tip of main that getBranch returned in this request, which
\* is still the tip when the tree is created.
C4_Round2Base ==
    req.round = 2 =>
        /\ (treeSha # 0 =>
              /\ tipRead # 0
              /\ TreeObj(treeSha).base = tipRead
              /\ (commitSha = 0 => remote.tip = tipRead))
        /\ (newCommitSha # 0 => CommitObj(newCommitSha).parents = <<tipRead>>)

C4_Witness ==
    /\ req.round = 2
    /\ newCommitSha # 0
    /\ remote.tip = newCommitSha
    /\ CommitObj(newCommitSha).tree = treeSha

\* C5: when generation fails (call error or unparseable reply) the request
\* aborts with no mutating version-control call and no callback POST.
C5_GenerationFailureAborts ==
    ("generate" \in issued /\ "generate" \notin succeeded) =>
        /\ pc \in Aborted
        /\ err = "generation"
        /\ issued \cap MutatingCalls = {}
        /\ issued \subseteq {"getContent", "generate"}
        /\ remote = InitRemote
        /\ postTimes = <<>>

C5_Witness ==
    /\ pc = "failed"
    /\ err = "generation"
    /\ req.round = 2
    /\ "getContent" \in succeeded

\* the publish steps in program order
StageRank(stage) ==
    CASE stage = "createRepo" -> 1
      [] stage = "getBranch" -> 2
      [] stage = "blobs" -> 3
      [] stage = "createTree" -> 4
      [] stage = "createCommit" -> 5
      [] stage = "setRef" -> 6
      [] stage = "enablePages" -> 7
      [] OTHER -> 0

CallRank(call) ==
    CASE call = "createRepo" -> 1
      [] call = "getBranch" -> 2
      [] call = "createBlob" -> 3
      [] call = "createTree" -> 4
      [] call = "createCommit" -> 5
      [] call \in RefCalls -> 6
      [] call = "enablePages" -> 7
      [] OTHER -> 0

\* the repository as the successful calls of this request leave it
RemoteOfSucceeded ==
    [exists |-> InitRemote.exists \/ "createRepo" \in succeeded,
     blobs |-> blobIdx,
     trees |-> InitRemote.trees \cup
                 (IF "createTree" \in succeeded
                    THEN {[sha |-> treeSha, base |-> baseSha,
                           entries |-> treeEntries]}
                    ELSE {}),
     commits |-> InitRemote.commits \cup
                 (IF "createCommit" \in succeeded
                    THEN {[sha |-> newCommitSha, tree |-> treeSha,
                           parents |-> IF baseSha = 0 THEN <<>>
                                       ELSE <<baseSha>>]}
                    ELSE {}),
     tip |-> IF RefCalls \cap succeeded # {} THEN newCommitSha
             ELSE InitRemote.tip,
     pages |-> InitRemote.pages \/ "enablePages" \in succeeded]

\* C6: when a version-control step fails for good, no later publish step
\* runs, there is no polling, no callback and no second generation, and the
\* repository stays as the successful steps made it (nothing is rolled back).
C6_PublishFailureAborts ==
    err = "github" =>
        /\ pc \in Aborted
        /\ StageRank(failedAt) > 0
        /\ \A c \in issued : CallRank(c) <= StageRank(failedAt)
        /\ "poll" \notin issued
        /\ "post" \notin issued
        /\ postTimes = <<>>
        /\ genCalls = 1
        /\ remote = RemoteOfSucceeded

C6_Witness ==
    /\ pc = "failed"
    /\ err = "github"
    /\ failedAt = "setRef"
    /\ "createCommit" \in succeeded
    /\ remote.tip = 0
    /\ remote.commits # {}

\* ---------------------------------------------------------------------------
AfterPoll == {"notify", "done", "rejected", "failed"}

\* C7: deployment verification never aborts the request: when no poll
\* returns 200 before the timeout the loop ends with pagesOk false and the
\* callback is sent with the payload a live site would have produced.
C7_PollTimeoutNotFatal ==
    /\ failedAt # "poll"
    /\ (pc = "poll" => err = "none")
    /\ (pc = "poll" /\ ~waiting /\ ~PollOpen => ENABLED PollTimeout)
    /\ (polls > 0 /\ pc \in AfterPoll =>
          /\ failedAt \in {"none", "notify"}
          /\ (~pagesOk => now - start >= maxWaitMs /\ pollWaits = polls)
          /\ payload = [email |-> req.email, task |-> req.task,
                        round |-> req.round, nonce |-> req.nonce,
                        repo_url |-> repoUrl, commit_sha |-> remote.tip,
                        pages_url |-> pagesUrl]
          /\ (pc = "notify" /\ ~waiting => ENABLED PostAttempt))

C7_Witness ==
    /\ pc = "done"
    /\ ~pagesOk
    /\ polls * pollIntervalMs >= maxWaitMs
    /\ delivered = 1
    /\ payload.commit_sha = newCommitSha

\* C8: the first poll answering 200 ends polling at once (no later poll, no
\* interval wait after it); every other poll is followed by exactly one
\* interval wait before the next poll.
C8_PollStopsAtFirst200 ==
    /\ (pagesOk => pc \in AfterPoll /\ polls = pollWaits + 1)
    /\ (~pagesOk =>
          polls = pollWaits + (IF pc = "poll" /\ waiting THEN 1 ELSE 0))
    /\ (pc = "poll" => now - start = pollWaits * pollIntervalMs)

C8_Witness ==
    /\ pagesOk
    /\ polls = 2
    /\ pollWaits = 1
    /\ pc = "notify"

ExpectedBackoffMs == <<1000, 2000, 4000, 8000>>

\* C9: postWithRetry issues at most 5 POSTs, none after the first successful
\* one, and fails with the notification error only after 5 failed attempts.
C9_PostAtMostFiveStopsOnSuccess ==
    /\ Len(postTimes) <= 5
    /\ delivered <= 1
    /\ (delivered = 1 => pc = "done" /\ err = "none" /\ ~ENABLED PostAttempt)
    /\ (pc = "done" => delivered = 1)
    /\ (err = "notify" => Len(postTimes) = 5 /\ delivered = 0)
    /\ (pc = "notify" /\ ~waiting => Len(postTimes) = i /\ i < 5)

C9_Witness ==
    /\ pc = "done"
    /\ delivered = 1
    /\ Len(postTimes) = 3

\* C10: the wait after failed attempt k (k = 1..4) is 2^(k-1) seconds, the
\* waits double and strictly increase, and attempt k+1 starts no earlier than
\* that wait after attempt k.
C10_BackoffDoubles ==
    /\ \A k \in 1..Len(delays) :
          /\ k <= 4 => delays[k] = ExpectedBackoffMs[k]
          /\ k > 1 => delays[k] = 2 * delays[k - 1] /\ delays[k] > delays[k - 1]
    /\ \A k \in 2..Len(postTimes) :
          /\ Len(delays) >= k - 1
          /\ postTimes[k] - postTimes[k - 1] >= ExpectedBackoffMs[k - 1]
    /\ (pc = "notify" /\ ~waiting => Len(delays) = Len(postTimes))

C10_Witness ==
    /\ Len(postTimes) = 5
    /\ Len(delays) = 4
    /\ postTimes[5] - postTimes[1] = 15000

\* ---------------------------------------------------------------------------
\* the commits this request has created on the host
OwnCommits == {c \in remote.commits : c.sha >= 3}

\* C11: every notification attempt carries the same payload, and from the
\* first attempt on there is no generation call and no version-control call:
\* the repository, the commit and the commit_sha stay as they were.
C11_RetriesRepeatPayload ==
    /\ [](postTimes # <<>> =>
            /\ sent = {payload}
            /\ genCalls = 1
            /\ Cardinality(OwnCommits) = 1
            /\ payload.commit_sha = commitSha)
    /\ [][postTimes # <<>> =>
            /\ payload' = payload
            /\ remote' = remote
            /\ genCalls' = genCalls
            /\ commitSha' = commitSha
            /\ issued' = issued]_vars

C11_Witness ==
    /\ pc = "done"
    /\ Len(postTimes) = 4
    /\ sent = {payload}
    /\ payload.commit_sha = remote.tip
    /\ remote.tip # 0

\* ---------------------------------------------------------------------------
\* what generation produced for this request
GeneratedFiles == WithLicense(replyFiles, req.round)
Committed == TreeObj(treeSha).entries

\* C12: merging the attachments never changes a generated path: whatever the
\* attachments (text or binary, also one named like a generated file whose
\* content is the empty string), the content committed for every generated
\* path is the generated content.
C12_MergeKeepsGenerated ==
    treeSha # 0 =>
        \A path \in DOMAIN GeneratedFiles :
            /\ path \in DOMAIN Committed
            /\ Committed[path] = GeneratedFiles[path]

\* C13: a malformed attachment (not a data URI, a bad percent-escape, no name
\* or no url) never aborts the request: neither the prompt building nor the
\* merge throws, and the request goes on as if the attachment were absent.
C13_MalformedIsSkipped ==
    /\ err # "prompt"
    /\ failedAt # "merge"

\* the files after the merge of the attachments into the generated ones
MergedFiles == MergeFrom(GeneratedFiles, req.attachments, 1)

\* C14: every text entry handed to the tree creation carries the redacted
\* form of the merged content of its file.
C14_TreeTextIsRedacted ==
    "createTree" \in issued =>
        \A path \in DOMAIN treeEntries :
            ~treeEntries[path].binary =>
                treeEntries[path].content =
                    redactSecretsInContent(MergedFiles[path].content)

MandatedKeys == {"index.html", "README.md"}

\* C16: a round-1 request that reaches the tree creation commits index.html,
\* README.md and LICENSE whatever the parseable reply was, and a reply that
\* omits a mandated key fails the generation.
C16_Round1CommitsMandated ==
    /\ (req.round = 1 /\ "createTree" \in issued =>
          MandatedKeys \cup {"LICENSE"} \subseteq DOMAIN treeEntries)
    /\ ("generate" \in succeeded => MandatedKeys \subseteq DOMAIN replyFiles)

\* ---------------------------------------------------------------------------
\* C15: in round 1 a conflict answer to the hosting-enable request counts as
\* success: the request does not fail on it and goes on to the polling and
\* the callback.
C15_ConflictIsSuccess ==
    conflict => failedAt # "enablePages"

\* C19: every mutating version-control call is safe to retry: when the host
\* applied an attempt whose response was lost, the request still does not
\* fail at a publish step, and the branch is at the commit the callback names.
C19_LostResponseIsSafe ==
    /\ (lost # {} => err # "github")
    /\ (lost # {} /\ postTimes # <<>> => remote.tip = payload.commit_sha)

\* ---------------------------------------------------------------------------
\* C20: every callback POST carries the email, task, round and nonce of the
\* request with the derived repo_url and pages_url, and its commit_sha is the
\* non-empty id of the commit this request created, to which main had been
\* set successfully before the POST.
C20_PayloadNamesOwnCommit ==
    \A pl \in sent :
        /\ pl.email = req.email /\ pl.task = req.task
        /\ pl.round = req.round /\ pl.nonce = req.nonce
        /\ pl.repo_url = RepoUrlOf(RepoNameOf(req.task, 0))
        /\ pl.pages_url = PagesUrlOf(RepoNameOf(req.task, 0))
        /\ pl.commit_sha # 0
        /\ pl.commit_sha = newCommitSha
        /\ \E c \in OwnCommits : c.sha = pl.commit_sha
        /\ RefCalls \cap succeeded # {}
        /\ remote.tip = pl.commit_sha

C20_Witness ==
    /\ pc = "done"
    /\ req.round = 2
    /\ sent = {payload}
    /\ CommitObj(payload.commit_sha).parents = <<2>>
    /\ remote.tip = payload.commit_sha
    /\ payload.repo_url =
        <<"h", "t", "t", "p", "s", ":", "/", "/", "g", "i", "t", "h", "u",
          "b", ".", "c", "o", "m", "/", "O", "c", "t", "o", "/", "p", "r",
          "o", "j", "e", "c", "t", "-", "s", "a", "m", "p", "l", "e", "-",
          "t", "a", "s", "k", "-", "1", "2", "3">>
    /\ payload.pages_url =
        <<"h", "t", "t", "p", "s", ":", "/", "/", "o", "c", "t", "o", ".",
          "g", "i", "t", "h", "u", "b", ".", "i", "o", "/", "p", "r", "o",
          "j", "e", "c", "t", "-", "s", "a", "m", "p", "l", "e", "-", "t",
          "a", "s", "k", "-", "1", "2", "3", "/">>

\* ---------------------------------------------------------------------------
\* C17: the repository name, repo_url and pages_url depend only on the task
\* id and the account: a request with the same task id arriving at any other
\* time derives the same three values, also for an empty task id and for one
\* whose slug is longer than 50 characters.
C17_NamesDependOnTaskOnly ==
    repoName # <<>> =>
        \A t \in ArrivalTimes :
            /\ RepoNameOf(req.task, t) = repoName
            /\ RepoUrlOf(RepoNameOf(req.task, t)) = repoUrl
            /\ PagesUrlOf(RepoNameOf(req.task, t)) = pagesUrl

\* ---------------------------------------------------------------------------
\* the commits reachable from a commit through parents
RECURSIVE Ancestry(_)
Ancestry(sha) ==
    {sha} \cup UNION {Ancestry(CommitObj(sha).parents[k]) :
                        k \in 1..Len(CommitObj(sha).parents)}

\* both requests have had their update of main accepted
BothUpdated == "updateRef" \in succeeded /\ peerPc \in {"notify", "done"}

\* C18: two concurrent round-2 requests for one task race on main: the update
\* of either is accepted wherever the branch is (no expected-SHA check), and
\* when both read the same tip the branch ends at one of the two commits,
\* whose ancestry (the commit and the tip read) lacks the other commit, while
\* each callback names the commit of its own request.
C18_RefRace ==
    /\ (pc = "setRef" /\ ~waiting => RefAccepted(RefCall(baseSha)))
    /\ (peerPc = "setRef" => RefAccepted(RefCall(peerBase)))
    /\ peerPc # "failed"
    /\ failedAt # "setRef"
    /\ (BothUpdated /\ peerBase = tipRead =>
          /\ remote.tip \in {newCommitSha, peerCommit}
          /\ newCommitSha # peerCommit
          /\ Ancestry(remote.tip) = {remote.tip, tipRead}
          /\ (payload # NoPayload => payload.commit_sha = newCommitSha)
          /\ (peerSent # 0 => peerSent = peerCommit))

C18_Witness ==
    /\ pc = "done"
    /\ peerPc = "done"
    /\ peerBase = tipRead
    /\ remote.tip = peerCommit
    /\ newCommitSha \notin Ancestry(remote.tip)
    /\ sent = {payload}
    /\ payload.commit_sha = newCommitSha
    /\ peerSent = peerCommit

\* ---------------------------------------------------------------------------
\* position of a request in program order
PcRank(at) ==
    CASE at = "idle" -> 0
      [] at = "spawned" -> 1
      [] at = "getContent" -> 2
      [] at = "generate" -> 3
      [] at \in {"createRepo", "getBranch"} -> 4
      [] at = "merge" -> 5
      [] at \in GhStages -> 5 + StageRank(at)
      [] at = "poll" -> 13
      [] at = "notify" -> 14
      [] at \in {"done", "rejected", "closed"} -> 15
      [] OTHER -> 16

Terminal == {"done", "failed"}

MaxPolls == maxWaitMs \div pollIntervalMs + 1

\* C21: every accepted request eventually ends, in exactly one of two ways: the
\* callback was delivered (once) or a failure was logged; an ended request
\* stays ended; the retry loops and the poll loop are bounded and the request
\* never goes back to an earlier stage.
C21_EveryRequestEnds ==
    /\ (pc = "spawned") ~> (pc \in Terminal)
    /\ [](pc = "done" => delivered = 1 /\ ~logged /\ err = "none")
    /\ [](pc = "failed" => delivered = 0 /\ logged /\ err # "none")
    /\ [](/\ (pc \in GhStages => i < GhAttempts)
          /\ (pc = "notify" => i < PostRetries)
          /\ Len(postTimes) <= PostRetries
          /\ polls <= MaxPolls)
    /\ [][/\ PcRank(pc') >= PcRank(pc)
          /\ (pc \in Terminal => pc' = pc)]_vars

C21_Witness ==
    /\ pc = "failed"
    /\ logged
    /\ err = "notify"
    /\ Len(postTimes) = PostRetries
    /\ polls = MaxPolls
    /\ "createRepo" \in succeeded

\* C23: a call wrapped in ghRetry is invoked at most three times; the wait
\* after the failed attempt i (from 0) is 1000 * 2^i ms, also after the third;
\* a call that returns ends the loop, and the next step is a later call or the
\* next blob; after three failures the error thrown is the one the third
\* attempt raised.
C23_GhRetryPolicy ==
    /\ [](/\ (pc \in GhStages => i <= 2)
          /\ (waiting /\ pc # "poll" /\ pc # "notify" => pc \in GhStages)
          /\ (failedAt \in GhStages =>
                 /\ err = "github"
                 /\ cause = [at |-> failedAt, attempt |-> 2]))
    /\ [][/\ (pc \in GhStages /\ waiting =>
                 /\ now' - now = 1000 * Pow2(i)
                 /\ \/ i < 2 /\ i' = i + 1 /\ pc' = pc /\ ~waiting'
                    \/ i = 2 /\ pc' = "rejected")
          /\ (pc \in GhStages /\ ~waiting =>
                 \/ waiting' /\ i' = i /\ pc' = pc
                 \/ /\ ~waiting' /\ i' = 0
                    /\ \/ PcRank(pc') > PcRank(pc)
                       \/ pc = "blobs" /\ pc' = pc /\ blobIdx' = blobIdx + 1)]_vars

C23_Witness ==
    /\ pc = "failed"
    /\ failedAt = "createCommit"
    /\ cause = [at |-> "createCommit", attempt |-> 2]
    /\ now = 7000

\* calls that write to the repository or report the result
LaterCalls ==
    {"createBlob", "createTree", "createCommit", "createRef", "updateRef",
     "enablePages", "poll", "post"}

\* C24: getBranch is called in round 2 only and once per request, without a
\* retry wait; when it fails (as it does when the branch does not exist) the
\* request is aborted: no blob, tree, commit or reference call, no callback,
\* the repository untouched.
C24_GetBranchOnce ==
    /\ [](/\ ("getBranch" \in issued => req.round = 2 /\ pc # "getBranch")
          /\ (pc = "getBranch" => i = 0 /\ ~waiting)
          /\ (req.round = 2 /\ ~remoteInit /\ "getBranch" \in issued =>
                 failedAt = "getBranch")
          /\ ("getBranch" \in issued \ succeeded =>
                 /\ failedAt = "getBranch"
                 /\ pc \in Aborted
                 /\ err = "github"
                 /\ cause = [at |-> "getBranch", attempt |-> 0]
                 /\ issued \cap LaterCalls = {}
                 /\ postTimes = <<>>
                 /\ delivered = 0
                 /\ remote = InitRemote
                 /\ now = 0))
    /\ [][pc = "getBranch" => pc' \in {"merge", "rejected"} /\ now' = now]_vars

C24_Witness ==
    /\ pc = "failed"
    /\ failedAt = "getBranch"
    /\ ~remoteInit
    /\ genCalls = 1

\* the first n of the well-known paths
FirstPaths(n) == {possibleFiles[k] : k \in 1..n}

\* C25: in round 2 each of the three well-known paths is read exactly once,
\* whether or not the earlier reads failed; a read either records the content
\* of its own path or records nothing; no read aborts the request, and after
\* the third read the generator is called.
C25_ReadsAreBestEffort ==
    /\ [](req.round = 2 =>
            /\ failedAt # "getContent"
            /\ DOMAIN existingCode \subseteq FirstPaths(p)
            /\ (pc = "getContent" => p < 3 /\ genCalls = 0)
            /\ (pc \notin {"idle", "closed", "spawned", "getContent"} =>
                   /\ p = 3
                   /\ pc = "generate" \/ genCalls = 1 \/ err = "prompt"))
    /\ [][pc = "getContent" =>
            /\ p' = p + 1
            /\ pc' = IF p = 2 THEN "generate" ELSE "getContent"
            /\ \/ existingCode' = existingCode
               \/ /\ DOMAIN existingCode' =
                        DOMAIN existingCode \cup {possibleFiles[p + 1]}
                  /\ \A q \in DOMAIN existingCode :
                        existingCode'[q] = existingCode[q]]_vars

C25_Witness ==
    /\ req.round = 2
    /\ pc = "done"
    /\ p = 3
    /\ DOMAIN existingCode = {"README.md"}
    /\ genCalls = 1

\* C26: a reference call is issued only once createCommit has returned, and
\* what it puts on the branch is the commit createCommit returned; it is
\* createRef when no base was resolved (never in round 2) and updateRef when
\* one was (round 2 only); the branch tip is always a commit of the
\* repository.
C26_RefFollowsCommit ==
    /\ [](/\ (pc = "setRef" \/ RefCalls \cap issued # {} =>
                 /\ "createCommit" \in succeeded
                 /\ newCommitSha # 0
                 /\ newCommitSha \in {c.sha : c \in remote.commits})
          /\ ("createRef" \in issued => baseSha = 0 /\ req.round # 2)
          /\ ("updateRef" \in issued =>
                 baseSha # 0 /\ baseSha = tipRead /\ req.round = 2)
          /\ (RefCalls \cap succeeded # {} =>
                 remote.tip = newCommitSha /\ commitSha = newCommitSha)
          /\ (remote.tip # 0 => remote.tip \in {c.sha : c \in remote.commits}))
    /\ [][remote'.tip # remote.tip =>
            pc = "setRef" /\ remote'.tip = newCommitSha]_vars

C26_Witness ==
    /\ req.round = 1
    /\ "createRef" \in succeeded
    /\ remote.tip = newCommitSha
    /\ remote.commits = {[sha |-> newCommitSha, tree |-> treeSha, parents |-> <<>>]}
    /\ pc = "enablePages"

\* C27: a round-2 request issues no createRepo and no Pages call and adds no
\* LICENSE to the files; a round-1 request issues no getBranch and no
\* getContent, resolves no base, and the tree and the commit it creates have
\* no base tree and no parents.
C27_RoundStepsExclusive ==
    /\ (req.round = 2 =>
          /\ {"createRepo", "enablePages"} \cap issued = {}
          /\ pc \notin {"createRepo", "enablePages"}
          /\ "LICENSE" \notin DOMAIN codeFiles
          /\ "LICENSE" \notin DOMAIN treeEntries)
    /\ (req.round = 1 =>
          /\ {"getBranch", "getContent"} \cap issued = {}
          /\ pc \notin {"getBranch", "getContent"}
          /\ p = 0 /\ existingCode = <<>>
          /\ tipRead = 0 /\ baseSha = 0
          /\ ("generate" \in succeeded => "LICENSE" \in DOMAIN codeFiles)
          /\ \A t \in remote.trees \ InitRemote.trees : t.base = 0
          /\ \A c \in remote.commits \ InitRemote.commits : c.parents = <<>>)

C27_Witness ==
    /\ req.round = 2
    /\ pc = "done"
    /\ issued = {"getContent", "generate", "getBranch", "createBlob",
                 "createTree", "createCommit", "updateRef", "poll", "post"}
    /\ DOMAIN treeEntries = {"index.html", "README.md", "logo.png"}

\* C28: a request whose round is neither 1 nor 2 is acknowledged and then
\* left alone: no generation call, no call to the version-control host, no
\* callback POST.
C28_OtherRoundsNotProcessed ==
    req.round \notin {1, 2} =>
        /\ issued = {}
        /\ genCalls = 0
        /\ postTimes = <<>>
        /\ remote = InitRemote

\* C22: redacting a redacted text changes nothing, whatever the text, also
\* when an assignment and a prefixed token overlap or touch.
C22_RedactionIdempotent ==
    /\ (Len(texts) >= 2 => redactSecretsInContent(texts[2]) = texts[2])
    /\ (Len(texts) = 3 => texts[3] = texts[2])

\* SECRET=ghp_ : the value of the assignment is a token prefix
C22_Witness ==
    /\ Len(texts) = 3
    /\ texts[1] = <<"S", "E", "C", "R", "E", "T", "=", "g", "h", "p", "_">>
    /\ texts[2] = Redacted
    /\ texts[3] = Redacted

\* C29: in round 2 the prior contents given to the generator were all read at
\* the commit that getBranch then returns as the base of the new tree and the
\* parent of the new commit.
C29_ReadsMatchBase ==
    req.round = 2 /\ baseSha # 0 =>
        \A path \in DOMAIN existingCode : existingCode[path] = baseSha

\* C30: requests for different tasks never derive the same repository name.
C30_NamingInjective ==
    Len(texts) = 4 /\ texts[1] # texts[2] => texts[3] # texts[4]
====
